---- MODULE Spec2Model ----
(***************************************************************************)
(* Model of rpw.db.collector: the Collector facade, its _Filter chain      *)
(* builder, the symbol / level sub-filters and the ParameterFilter rule    *)
(* builder.  The Revit FilteredElementCollector behind the Collector is    *)
(* modelled as a set of element ids that every narrowing call shrinks in   *)
(* place: _chain discards the value the narrowing calls return and keeps   *)
(* using the one object held in Collector._revit_object.                   *)
(***************************************************************************)
EXTENDS Integers, Sequences, FiniteSets, TLC

VARIABLES
    order,          \* iteration order of the keyword dictionaries ("fwd" / "rev")
    pc,             \* "new": no Collector yet, "live": constructed, "failed": __init__ raised
    scopeArgs,      \* doc and scope keywords handed to the constructor
    revit_object,   \* Collector._revit_object: ids the wrapped collector still passes
    filters,        \* Collector._filters
    elements,       \* Collector.elements
    last,           \* the last call: [op, kw, err]
    narrowed,       \* narrowing calls made on the adapter during the last call
    hist,           \* calls so far: "new", "constructed", "filtered_once", "filtered_more"
    repeat,         \* the last call repeated the .filter(...) call before it
    pfArgs,         \* conditions handed to ParameterFilter(...)
    pfObj,          \* the ParameterFilter built from pfArgs
    read,           \* what the last operation read, if it was iter / len / bool
    gen             \* the generator of __iter__ a for loop is consuming

cvars == <<pc, scopeArgs, revit_object, filters, elements, last, narrowed, hist, repeat>>
pvars == <<pfArgs, pfObj>>
vars == <<order, pc, scopeArgs, revit_object, filters, elements, last, narrowed,
          hist, repeat, pfArgs, pfObj, read, gen>>

\* ---------------------------------------------------------------- bounds
MaxKeys == 2      \* keys the stored filter dictionary may hold
MaxConds == 2     \* keywords in one ParameterFilter(...) call
MaxInLoop == 1    \* .filter(...) calls made inside one for loop over the Collector

\* ---------------------------------------------------------------- helpers
EmptyMap == [k \in {} |-> 0]

Merge(f, g) == [k \in (DOMAIN f) \cup (DOMAIN g) |-> IF k \in DOMAIN g THEN g[k] ELSE f[k]]

Pop(f, k) == [x \in (DOMAIN f) \ {k} |-> f[x]]

Restrict(f, S) == [x \in S |-> f[x]]

RECURSIVE SortedIds(_)
SortedIds(S) ==
    IF S = {} THEN <<>>
    ELSE LET m == CHOOSE x \in S : \A y \in S : x <= y
         IN <<m>> \o SortedIds(S \ {m})

\* Every keyword name of the model, in declaration order; the rank decides
\* the order a dictionary's keys are iterated in.
KeyOrder ==
    <<"of_class", "of_category", "is_not_type", "is_type", "is_view_independent",
      "symbol", "level", "not_level", "parameter_filter",
      "bogus", "view", "elements", "element_ids",
      "equals", "not_equals", "contains", "not_contains", "begins", "not_begins",
      "ends", "not_ends", "greater", "not_greater", "greater_equal",
      "not_greater_equal", "less", "not_less", "less_equal", "not_less_equal",
      "reverse", "case_sensitive", "precision", "fuzzy">>

RankOf ==
    [k \in {KeyOrder[i] : i \in 1..Len(KeyOrder)} |->
        CHOOSE i \in 1..Len(KeyOrder) : KeyOrder[i] = k]

Rank(k) == RankOf[k]

Before(a, b, ord) == IF ord = "fwd" THEN Rank(a) < Rank(b) ELSE Rank(b) < Rank(a)

\* dict.keys() / dict.iteritems(): the keys of d in iteration order
RECURSIVE IterKeys(_, _)
IterKeys(S, ord) ==
    IF S = {} THEN <<>>
    ELSE LET m == CHOOSE x \in S : \A y \in S \ {x} : Before(x, y, ord)
         IN <<m>> \o IterKeys(S \ {m}, ord)

\* ---------------------------------------------------------------- values
\* A keyword value: t is its shape, v what it denotes.
Val(t, v) == [t |-> t, v |-> v]
True == Val("bool", "True")
False == Val("bool", "False")

\* ---------------------------------------------------------------- the element store
\* 10 elements of class X (two of them element types) and 5 of class Y.
ElementIds == 1..15
ClassOf(e) == IF e <= 10 THEN "X" ELSE "Y"
IsElementType(e) == e \in {1, 2, 11}
CategoryOf(e) == IF e \in {1, 2, 3, 4, 5, 6, 11} THEN "OST_Walls" ELSE "OST_Doors"
IsViewIndependent(e) == e \in {1, 2, 3, 7, 11, 13}
SymbolOf(e) == IF e \in {3, 4, 12} THEN "S1" ELSE IF e \in {5, 6} THEN "S2" ELSE "none"
LevelOf(e) == IF e \in {3, 5, 7, 12, 13} THEN "L1" ELSE IF e \in {4, 6} THEN "L2" ELSE "none"

ViewElements == {1, 3, 4, 5, 7, 11, 12}
ListedElements == {1, 2, 3, 5, 11, 13}
ListedIds == {2, 3, 4, 12, 13, 14}

\* Names the enumeration resolver (BicEnum.get) and getattr(DB, name) know.
KnownCategories == {"OST_Walls", "OST_Doors"}
KnownClasses == {"X", "Y"}

\* ---------------------------------------------------------------- ParameterFilter
\* A condition value: t is its Python type, s its text (character codes,
\* upper case = lower case + 10), n its number (floats in units of 1/768).
CVal(t, s, n) == [t |-> t, s |-> s, n |-> n]
StrV(s) == CVal("str", s, 0)
IntV(n) == CVal("int", <<>>, n)
FloatV(n) == CVal("float", <<>>, n)
BoolV(b) == CVal("bool", <<>>, IF b THEN 1 ELSE 0)

Wall1 == <<13, 1, 2>>
wall1 == <<3, 1, 2>>
Wall2 == <<13, 1, 4>>
Door == <<14, 5>>

\* The value each element holds for the filtered parameter.
ParamOf(e) ==
    IF e \in {1, 3, 11} THEN StrV(Wall1)
    ELSE IF e \in {2, 12} THEN StrV(wall1)
    ELSE IF e \in {4, 5} THEN StrV(Wall2)
    ELSE IF e \in {6, 13} THEN StrV(Door)
    ELSE IF e \in {7, 8} THEN IntV(2)
    ELSE IF e \in {9, 14} THEN IntV(3)
    ELSE IF e = 10 THEN FloatV(768)
    ELSE FloatV(769)

RULES ==
    [equals |-> "CreateEqualsRule", not_equals |-> "CreateEqualsRule",
     contains |-> "CreateContainsRule", not_contains |-> "CreateContainsRule",
     begins |-> "CreateBeginsWithRule", not_begins |-> "CreateBeginsWithRule",
     ends |-> "CreateEndsWithRule", not_ends |-> "CreateEndsWithRule",
     greater |-> "CreateGreaterRule", not_greater |-> "CreateGreaterRule",
     greater_equal |-> "CreateGreaterOrEqualRule",
     not_greater_equal |-> "CreateGreaterOrEqualRule",
     less |-> "CreateLessRule", not_less |-> "CreateLessRule",
     less_equal |-> "CreateLessOrEqualRule", not_less_equal |-> "CreateLessOrEqualRule"]

CASE_SENSITIVE == BoolV(TRUE)
\* 0.0013020833333333 = 1/768: one unit of the model's floats.
FLOAT_PRECISION == 1

\* 'not_' in condition_name
\* A variant that only recognises not_equals:
HasNotPrefixEqualsOnly(name) == name = "not_equals"

HasNotPrefix(name) ==
    name \in {"not_equals", "not_contains", "not_begins", "not_ends", "not_greater",
              "not_greater_equal", "not_less", "not_less_equal"}

\* args = [condition_value] (+ case_sensitive for a str) (+ precision for a float)
RuleArgs(value, case_sensitive, precision) ==
    <<value>> \o (IF value.t = "str" THEN <<case_sensitive>> ELSE <<>>)
              \o (IF value.t = "float" THEN <<precision>> ELSE <<>>)

\* Does ParameterFilterRuleFactory.<factory>(parameter_id, *args) have an overload?
FactoryAccepts(factory, args) ==
    \/ Len(args) = 2 /\ args[1].t = "str" /\ args[2].t = "bool"
    \/ /\ factory \notin {"CreateContainsRule", "CreateBeginsWithRule", "CreateEndsWithRule"}
       /\ \/ Len(args) = 1 /\ args[1].t = "int"
          \/ Len(args) = 2 /\ args[1].t = "float" /\ args[2].t = "float"

AtomicRule(factory, args, inverted) == [factory |-> factory, args |-> args, inverted |-> inverted]

PFResult(err, rules, reverse) == [err |-> err, rules |-> rules, reverse |-> reverse]

\* The loop of ParameterFilter.__init__ over conditions.iteritems()
RECURSIVE BuildRules(_, _, _, _, _, _)
BuildRules(conditions, keys, i, case_sensitive, precision, rules) ==
    IF i > Len(keys) THEN [err |-> "none", rules |-> rules]
    ELSE LET condition_name == keys[i]
             rule_factory_name == RULES[condition_name]
             args == RuleArgs(conditions[condition_name], case_sensitive, precision)
         IN IF ~FactoryAccepts(rule_factory_name, args)
            THEN [err |-> "TypeError", rules |-> rules]
            ELSE BuildRules(conditions, keys, i + 1, case_sensitive, precision,
                            Append(rules, AtomicRule(rule_factory_name, args,
                                                     HasNotPrefix(condition_name))))

\* conditions.get(key, default)
DictGet(d, key, default) == IF key \in DOMAIN d THEN d[key] ELSE default

\* A variant that builds the filter even when no rule was given:
BuiltUnchecked(b, reverse) ==
    IF b.err # "none" THEN PFResult(b.err, <<>>, reverse)
    ELSE PFResult("none", b.rules, reverse)

\* The end of ParameterFilter.__init__: no rule at all is an error
Built(b, reverse) ==
    IF b.err # "none" THEN PFResult(b.err, <<>>, reverse)
    ELSE IF b.rules = <<>> THEN PFResult("RPW_Exception", <<>>, reverse)
    ELSE PFResult("none", b.rules, reverse)

\* ParameterFilter(parameter_id, **conditions)
ParameterFilter(conditions, ord) ==
    LET reverse == DictGet(conditions, "reverse", BoolV(FALSE))
        case_sensitive == DictGet(conditions, "case_sensitive", CASE_SENSITIVE)
        precision == DictGet(conditions, "precision", FloatV(FLOAT_PRECISION))
        keys == IterKeys(DOMAIN conditions, ord)
    IN IF \E k \in DOMAIN conditions : k \notin DOMAIN RULES
       THEN PFResult("RPW_Exception", <<>>, reverse)
       ELSE Built(BuildRules(conditions, keys, 1, case_sensitive, precision, <<>>), reverse)

\* --- what the store does with a rule (Revit's FilterRule.ElementPasses)
Lower(s) == [i \in 1..Len(s) |-> s[i] % 10]
Fold(s, case_sensitive) == IF case_sensitive.n = 1 THEN s ELSE Lower(s)

IsPrefix(p, s) == Len(p) <= Len(s) /\ SubSeq(s, 1, Len(p)) = p
IsSuffix(p, s) == Len(p) <= Len(s) /\ SubSeq(s, Len(s) - Len(p) + 1, Len(s)) = p
IsInfix(p, s) == \E i \in 0..(Len(s) - Len(p)) : SubSeq(s, i + 1, i + Len(p)) = p

RECURSIVE TextLess(_, _)
TextLess(a, b) ==
    IF b = <<>> THEN FALSE
    ELSE IF a = <<>> THEN TRUE
    ELSE IF Head(a) # Head(b) THEN Head(a) < Head(b)
    ELSE TextLess(Tail(a), Tail(b))

Abs(x) == IF x < 0 THEN -x ELSE x

CompareText(a, b) == IF a = b THEN 0 ELSE IF TextLess(a, b) THEN -1 ELSE 1

\* -1, 0, 1: how the element's value pv compares with the rule's arguments
Compare(pv, args) ==
    IF args[1].t = "str"
    THEN CompareText(Fold(pv.s, args[2]), Fold(args[1].s, args[2]))
    ELSE IF args[1].t = "float"
    THEN IF Abs(pv.n - args[1].n) < args[2].n THEN 0
         ELSE IF pv.n < args[1].n THEN -1 ELSE 1
    ELSE IF pv.n = args[1].n THEN 0 ELSE IF pv.n < args[1].n THEN -1 ELSE 1

BasePasses(factory, args, pv) ==
    /\ pv.t = args[1].t
    /\ CASE factory = "CreateEqualsRule" -> Compare(pv, args) = 0
         [] factory = "CreateContainsRule" -> IsInfix(Fold(args[1].s, args[2]), Fold(pv.s, args[2]))
         [] factory = "CreateBeginsWithRule" -> IsPrefix(Fold(args[1].s, args[2]), Fold(pv.s, args[2]))
         [] factory = "CreateEndsWithRule" -> IsSuffix(Fold(args[1].s, args[2]), Fold(pv.s, args[2]))
         [] factory = "CreateGreaterRule" -> Compare(pv, args) = 1
         [] factory = "CreateGreaterOrEqualRule" -> Compare(pv, args) >= 0
         [] factory = "CreateLessRule" -> Compare(pv, args) = -1
         [] factory = "CreateLessOrEqualRule" -> Compare(pv, args) <= 0

\* DB.FilterInverseRule(rule) passes exactly where rule does not
RulePasses(rule, e) ==
    BasePasses(rule.factory, rule.args, ParamOf(e)) # rule.inverted

\* DB.ElementParameterFilter(rules, reverse)
ElementParameterFilterPasses(pf, e) ==
    (\A i \in 1..Len(pf.rules) : RulePasses(pf.rules[i], e)) # (pf.reverse.n = 1)

\* The pre-built ParameterFilter objects the Collector model is handed.
ParameterFilterObjects ==
    [pf1 |-> ParameterFilter([equals |-> StrV(Wall1)], "fwd"),
     pf2 |-> ParameterFilter([not_equals |-> StrV(Wall1)], "fwd")]

ParameterFilterObject(name) == ParameterFilterObjects[name]

\* ---------------------------------------------------------------- the wrapped collector
\* _Filter.MAP: filter name -> FilteredElementCollector method
MAP ==
    [of_class |-> "OfClass", of_category |-> "OfCategory",
     is_not_type |-> "WhereElementIsNotElementType",
     is_type |-> "WhereElementIsElementType",
     is_view_independent |-> "WhereElementIsViewIndependent",
     symbol |-> "WherePasses", level |-> "WherePasses", not_level |-> "WherePasses",
     parameter_filter |-> "WherePasses"]

\* Does element e pass the ElementFilter object f handed to WherePasses?
ElementFilterPasses(f, e) ==
    CASE f.t = "FamilyInstanceFilter" -> SymbolOf(e) = f.v
      [] f.t = "ElementLevelFilter" -> LevelOf(e) = f.v
      [] f.t = "ElementLevelFilterReversed" -> LevelOf(e) # f.v
      [] f.t = "ElementParameterFilter" ->
            ElementParameterFilterPasses(ParameterFilterObject(f.v), e)

\* Does the method exist with these arguments (else the call raises TypeError)?
MethodAccepts(method, args) ==
    CASE method = "OfClass" -> Len(args) = 1 /\ args[1].t = "type"
      [] method = "OfCategory" -> Len(args) = 1 /\ args[1].t = "bic"
      [] method = "WherePasses" ->
            /\ Len(args) = 1
            /\ args[1].t \in {"FamilyInstanceFilter", "ElementLevelFilter",
                              "ElementLevelFilterReversed", "ElementParameterFilter"}
      [] OTHER -> Len(args) = 0

\* The ids a narrowing method leaves in the collector it is called on.
Narrow(method, args, passing) ==
    CASE method = "OfClass" -> {e \in passing : ClassOf(e) = args[1].v}
      [] method = "OfCategory" -> {e \in passing : CategoryOf(e) = args[1].v}
      [] method = "WhereElementIsNotElementType" -> {e \in passing : ~IsElementType(e)}
      [] method = "WhereElementIsElementType" -> {e \in passing : IsElementType(e)}
      [] method = "WhereElementIsViewIndependent" -> {e \in passing : IsViewIndependent(e)}
      [] method = "WherePasses" -> {e \in passing : ElementFilterPasses(args[1], e)}

\* The outcome of a step: the error raised ("none" if none), the ids the
\* collector passes afterwards, and the narrowing calls made.
Outcome(err, passing, ops) == [err |-> err, passing |-> passing, ops |-> ops]

Op(filter_name, method) == [key |-> filter_name, method |-> method]

\* collector_filter(*args) for collector_filter = getattr(collector, method)
CollectorCall(filter_name, method, args, st) ==
    IF MethodAccepts(method, args)
    THEN Outcome("none", Narrow(method, args, st.passing), Append(st.ops, Op(filter_name, method)))
    ELSE Outcome("TypeError", st.passing, st.ops)

\* _FamilyInstanceFilter(symbol_or_id).unwrap(): "none" stands for RPW_TypeError
FamilyInstanceFilter(symbol_or_id) ==
    IF symbol_or_id.t = "id" THEN Val("FamilyInstanceFilter", symbol_or_id.v)
    ELSE IF symbol_or_id.t = "symbol" THEN Val("FamilyInstanceFilter", symbol_or_id.v)
    ELSE Val("none", "RPW_TypeError")

\* _ElementLevelFilter(level_or_id, reverse).unwrap()
ElementLevelFilter(level_or_id, reverse) ==
    LET kind == IF reverse THEN "ElementLevelFilterReversed" ELSE "ElementLevelFilter"
    IN IF level_or_id.t = "id" THEN Val(kind, level_or_id.v)
       ELSE IF level_or_id.t = "level" THEN Val(kind, level_or_id.v)
       ELSE Val("none", "RPW_TypeError")

\* The method a boolean value makes _chain call ("none": no call at all).
\* A variant that forgets the is_type / is_not_type duality:
BooleanMethodNoDuality(filter_name, filter_value) ==
    IF filter_value = True THEN MAP[filter_name] ELSE "none"

BooleanMethod(filter_name, filter_value) ==
    IF filter_value = True THEN MAP[filter_name]
    ELSE IF filter_name = "is_type" THEN MAP["is_not_type"]
    ELSE IF filter_name = "is_not_type" THEN MAP["is_type"]
    ELSE "none"

\* The body of the loop of _Filter._chain for one (filter_name, filter_value).
ApplyFilter(filter_name, filter_value, st) ==
    IF filter_name \notin DOMAIN MAP
    THEN Outcome("KeyError", st.passing, st.ops)
    ELSE LET method == MAP[filter_name]
         IN IF filter_value.t = "bool"
            THEN IF BooleanMethod(filter_name, filter_value) = "none" THEN st
                 ELSE CollectorCall(filter_name, BooleanMethod(filter_name, filter_value),
                                    <<>>, st)
            ELSE IF filter_value.t = "pf"
            THEN CollectorCall(filter_name, method,
                               <<Val("ElementParameterFilter", filter_value.v)>>, st)
            ELSE IF filter_name = "symbol"
            THEN LET f == FamilyInstanceFilter(filter_value)
                 IN IF f.t = "none" THEN Outcome("RPW_TypeError", st.passing, st.ops)
                    ELSE CollectorCall(filter_name, method, <<f>>, st)
            ELSE IF filter_name \in {"level", "not_level"}
            THEN LET f == ElementLevelFilter(filter_value, filter_name = "not_level")
                 IN IF f.t = "none" THEN Outcome("RPW_TypeError", st.passing, st.ops)
                    ELSE CollectorCall(filter_name, method, <<f>>, st)
            ELSE IF filter_name \in {"of_class", "of_category"}
            THEN CollectorCall(filter_name, method, <<filter_value>>, st)
            ELSE Outcome("RPW_Exception", st.passing, st.ops)

\* _Filter._chain(filters, collector): every filter of the dictionary is
\* applied, popped from the copy filter_stack, and the rest chained again.
RECURSIVE ChainLoop(_, _, _, _, _, _)

\* the loop goes on to its next key once the recursive call has returned
ChainNextKey(filtersArg, keys, i, filter_stack, deeper, ord) ==
    IF deeper.err # "none" THEN deeper
    ELSE ChainLoop(filtersArg, keys, i + 1, filter_stack, deeper, ord)

\* filter_stack.pop(filter_name); self._chain(filter_stack, collector)
ChainPopped(filtersArg, keys, i, filter_stack, applied, ord) ==
    IF applied.err # "none" THEN applied
    ELSE ChainNextKey(filtersArg, keys, i, filter_stack,
                      ChainLoop(filter_stack, IterKeys(DOMAIN filter_stack, ord), 1,
                                filter_stack, applied, ord),
                      ord)

ChainLoop(filtersArg, keys, i, filter_stack, st, ord) ==
    IF i > Len(keys) THEN st
    ELSE ChainPopped(filtersArg, keys, i, Pop(filter_stack, keys[i]),
                     ApplyFilter(keys[i], filtersArg[keys[i]], st), ord)

\* A variant that returns after the first filter of the dictionary:
ChainFirstOnly(filtersArg, passing, ord) ==
    LET keys == IterKeys(DOMAIN filtersArg, ord)
        st == Outcome("none", passing, <<>>)
    IN IF keys = <<>> THEN st ELSE ApplyFilter(keys[1], filtersArg[keys[1]], st)

Chain(filtersArg, passing, ord) ==
    ChainLoop(filtersArg, IterKeys(DOMAIN filtersArg, ord), 1, filtersArg,
              Outcome("none", passing, <<>>), ord)

\* _Filter._coerce_filter_values: names of categories and classes become handles
CoerceCategory(kw) ==
    IF "of_category" \in DOMAIN kw /\ kw["of_category"].t = "str" /\ kw["of_category"].v # ""
    THEN IF kw["of_category"].v \in KnownCategories
         THEN [err |-> "none", kw |-> [kw EXCEPT !["of_category"] = Val("bic", @.v)]]
         ELSE [err |-> "LookupError", kw |-> kw]
    ELSE [err |-> "none", kw |-> kw]

CoerceClass(kw) ==
    IF "of_class" \in DOMAIN kw /\ kw["of_class"].t = "str" /\ kw["of_class"].v # ""
    THEN IF kw["of_class"].v \in KnownClasses
         THEN [err |-> "none", kw |-> [kw EXCEPT !["of_class"] = Val("type", @.v)]]
         ELSE [err |-> "AttributeError", kw |-> kw]
    ELSE [err |-> "none", kw |-> kw]

CoerceFilterValues(kw) ==
    LET c == CoerceCategory(kw)
    IN IF c.err # "none" THEN c ELSE CoerceClass(c.kw)

\* A Collector object, and what a call on it did.
Object(passing, filtersNow, elems) ==
    [revit_object |-> passing, filters |-> filtersNow, elements |-> elems]

Result(err, obj, ops) == [err |-> err, obj |-> obj, ops |-> ops]

\* self._collector.elements = [element for element in filtered_collector]
\* A variant that extends the cached list instead of replacing it:
MaterializeAppending(old, passing) == old \o SortedIds(passing)

Materialize(old, passing) == SortedIds(passing)

\* The end of _Filter.__call__: the chained collector is materialized
\* unless _chain raised.
Chained(obj, merged, chained) ==
    IF chained.err # "none"
    THEN Result(chained.err, Object(chained.passing, merged, obj.elements), chained.ops)
    ELSE Result("none",
                Object(chained.passing, merged, Materialize(obj.elements, chained.passing)),
                chained.ops)

\* self._collector._filters.update(filters); self._chain(self._collector._filters)
Merged(obj, merged, ord) == Chained(obj, merged, Chain(merged, obj.revit_object, ord))

\* _Filter.__call__(**kw) on the Collector obj
FilterCall(obj, kw, ord) ==
    LET c == CoerceFilterValues(kw)
    IN IF c.err # "none" THEN Result(c.err, obj, <<>>)
       ELSE Merged(obj, Merge(obj.filters, c.kw), ord)

\* ---------------------------------------------------------------- Collector.__init__
ScopeNames == {"view", "elements", "element_ids"}

\* The keywords __init__ pops before it reads the rest as filters
PoppedNames == ScopeNames \cup {"doc"}

\* collector_doc = filters.pop('doc') if 'doc' in filters else revit.doc
CollectorDoc(scope) == IF "doc" \in scope THEN "other" ELSE "revit.doc"

\* The elements of a document: the documents of the store hold the same ones.
DocElements(collector_doc) == ElementIds

\* The scope keyword __init__ pops: view > elements > element_ids > none (doc)
PickedScope(scope) ==
    IF "view" \in scope THEN "view"
    ELSE IF "elements" \in scope THEN "elements"
    ELSE IF "element_ids" \in scope THEN "element_ids"
    ELSE "doc"

\* The ids DB.FilteredElementCollector(doc[, view_id | ids]) starts from
ScopeSet(picked) ==
    CASE picked = "view" -> ViewElements
      [] picked = "elements" -> ListedElements
      [] picked = "element_ids" -> ListedIds
      [] OTHER -> ElementIds

ScopeValue(name) == Val("scope", name)

\* Collector(**scope, **kw): the keyword dictionary holds both; scope is the
\* set of the keywords doc, view, elements, element_ids that were given
NewCollector(scope, kw, ord) ==
    LET collector_doc == CollectorDoc(scope)
        given == scope \ {"doc"}
        picked == PickedScope(given)
        left == given \ {picked}
        filtersArg == Merge(kw, [n \in left |-> ScopeValue(n)])
        fresh == Object(ScopeSet(picked) \cap DocElements(collector_doc), filtersArg, <<>>)
    IN IF \E key \in DOMAIN filtersArg : key \notin DOMAIN MAP
       THEN Result("RPW_Exception", fresh, <<>>)
       ELSE IF DOMAIN filtersArg # {}
       THEN FilterCall(fresh, filtersArg, ord)
       ELSE Result("none", fresh, <<>>)

\* ---------------------------------------------------------------- inputs
\* The values a caller may hand to each keyword: right shapes and wrong ones.
ValuesFor(k) ==
    CASE k = "of_class" -> {Val("type", "X"), Val("type", "Y"), Val("str", "X"), False}
      [] k = "is_type" -> {True, False, Val("int", "1")}
      [] k = "is_not_type" -> {True, False}
      [] k = "of_category" -> {Val("str", "OST_Walls")}
      [] k = "is_view_independent" -> {True, False}
      [] k = "symbol" -> {Val("id", "S1"), Val("str", "S1")}
      [] k = "level" -> {Val("level", "L1")}
      [] k = "not_level" -> {Val("id", "L1")}
      [] k = "parameter_filter" -> {Val("pf", "pf1")}
      [] k = "bogus" -> {True}

FilterKeys ==
    {"of_class", "of_category", "is_type", "is_not_type", "is_view_independent",
     "symbol", "level", "not_level", "parameter_filter", "bogus"}

AllValues == UNION {ValuesFor(k) : k \in FilterKeys}

KwOver(S) == {kw \in [S -> AllValues] : \A k \in S : kw[k] \in ValuesFor(k)}

Kws(keys, n) == UNION {KwOver(S) : S \in {T \in SUBSET keys : Cardinality(T) <= n}}

FilterKws == Kws(FilterKeys, 1)
CtorKws == Kws(FilterKeys, MaxKeys)

\* The conditions and options a caller may hand to ParameterFilter(...).
RuleNames == DOMAIN RULES
OptionNames == {"reverse", "case_sensitive", "precision"}
ConditionNames == RuleNames \cup OptionNames \cup {"fuzzy"}

ConditionValuesFor(k) ==
    CASE k = "reverse" -> {BoolV(TRUE), BoolV(FALSE)}
      [] k = "case_sensitive" -> {BoolV(FALSE)}
      [] k = "precision" -> {FloatV(2)}
      [] OTHER -> {StrV(Wall1), StrV(<<1>>), IntV(2), FloatV(768)}

AllConditionValues == UNION {ConditionValuesFor(k) : k \in ConditionNames}

ConditionsOver(S) ==
    {c \in [S -> AllConditionValues] : \A k \in S : c[k] \in ConditionValuesFor(k)}

ConditionSets ==
    UNION {ConditionsOver(S) : S \in {T \in SUBSET ConditionNames : Cardinality(T) <= MaxConds}}

Call(op, kw, err) == [op |-> op, kw |-> kw, err |-> err]

\* What a read handed back: op is "iter", "len" or "bool" ("none": no read)
Read(op, value) == [op |-> op, value |-> value]
NoRead == Read("none", <<>>)

\* The generator __iter__ returns: the elements it has yielded, those the
\* enumerator of _revit_object still holds, and the .filter(...) calls the
\* loop body has made so far.
Generator(open, yielded, pending, inloop) ==
    [open |-> open, yielded |-> yielded, pending |-> pending, inloop |-> inloop]
NoGenerator == Generator(FALSE, <<>>, <<>>, 0)

\* What the open enumerator of _revit_object may still hold after a
\* .filter(...) call that made the narrowing calls ops, ended with err and
\* left the collector passing.  A call that made a narrowing call, or that
\* succeeded and so enumerated the collector anew to fill elements, has
\* touched the collector being enumerated: it is then the store's choice to
\* go on over what the enumerator started with, to go on over what the
\* collector still passes, or to stop.  A call that raised before any
\* narrowing call has not touched the collector.
EnumeratorAfter(pending, ops, err, passing) ==
    IF ops = <<>> /\ err # "none" THEN {pending}
    ELSE {pending, SelectSeq(pending, LAMBDA e : e \in passing), <<>>}

\* ---------------------------------------------------------------- actions
Init ==
    /\ order \in {"fwd", "rev"}
    /\ pc = "new"
    /\ scopeArgs = {}
    /\ revit_object = {}
    /\ filters = EmptyMap
    /\ elements = <<>>
    /\ last = Call("none", EmptyMap, "none")
    /\ narrowed = <<>>
    /\ hist = "new"
    /\ repeat = FALSE
    /\ pfArgs = EmptyMap
    /\ pfObj = PFResult("new", <<>>, BoolV(FALSE))
    /\ read = NoRead
    /\ gen = NoGenerator

\* collector = Collector(**scope, **kw)
Construct(scope, kw) ==
    /\ pc = "new"
    /\ Cardinality(DOMAIN kw) <= MaxKeys
    /\ \E r \in {NewCollector(scope, kw, order)} :
          /\ pc' = IF r.err = "none" THEN "live" ELSE "failed"
          /\ revit_object' = r.obj.revit_object
          /\ filters' = r.obj.filters
          /\ elements' = r.obj.elements
          /\ last' = Call("construct", kw, r.err)
          /\ narrowed' = r.ops
    /\ scopeArgs' = scope
    /\ hist' = "constructed"
    /\ read' = NoRead
    /\ UNCHANGED <<order, repeat, pfArgs, pfObj, gen>>

\* collector.filter(**kw)
Filter(kw) ==
    /\ pc = "live"
    /\ Cardinality((DOMAIN filters) \cup (DOMAIN kw)) <= MaxKeys
    /\ gen.open => gen.inloop < MaxInLoop
    /\ \E r \in {FilterCall(Object(revit_object, filters, elements), kw, order)} :
          /\ revit_object' = r.obj.revit_object
          /\ filters' = r.obj.filters
          /\ elements' = r.obj.elements
          /\ last' = Call("filter", kw, r.err)
          /\ narrowed' = r.ops
          /\ IF gen.open
             THEN \E pending \in EnumeratorAfter(gen.pending, r.ops, r.err,
                                                     r.obj.revit_object) :
                     gen' = [gen EXCEPT !.inloop = @ + 1, !.pending = pending]
             ELSE gen' = gen
    /\ hist' = IF hist = "constructed" THEN "filtered_once" ELSE "filtered_more"
    /\ repeat' = (last.op = "filter" /\ last.kw = kw)
    /\ read' = NoRead
    /\ UNCHANGED <<order, pc, scopeArgs, pfArgs, pfObj>>

NewCollectorStep == pc = "new" /\ \E scope \in SUBSET PoppedNames, kw \in CtorKws : Construct(scope, kw)

FilterStep == pc = "live" /\ \E kw \in FilterKws : Filter(kw)

Next == NewCollectorStep \/ FilterStep

Spec == Init /\ [][Next]_vars

\* for element in collector: Collector.__iter__ starts to enumerate
\* _revit_object and yields its first element, or ends at once if it has none
Iter ==
    /\ pc = "live"
    /\ ~gen.open
    /\ \E all \in {SortedIds(revit_object)} :
          IF all = <<>>
          THEN gen' = NoGenerator /\ read' = Read("iter", <<>>)
          ELSE gen' = Generator(TRUE, <<Head(all)>>, Tail(all), 0) /\ read' = NoRead
    /\ UNCHANGED <<order, cvars, pvars>>

\* the loop asks for the next element: yield element, or the loop ends
IterNext ==
    /\ gen.open
    /\ IF gen.pending = <<>>
       THEN gen' = NoGenerator /\ read' = Read("iter", gen.yielded)
       ELSE /\ gen' = [gen EXCEPT !.yielded = Append(@, Head(gen.pending)),
                                 !.pending = Tail(@)]
            /\ read' = NoRead
    /\ UNCHANGED <<order, cvars, pvars>>

\* len(collector): Collector.__len__
LenOf ==
    /\ pc = "live"
    /\ read' = Read("len", Len(elements))
    /\ UNCHANGED <<order, cvars, pvars, gen>>

\* bool(collector): Collector.__bool__
BoolOf ==
    /\ pc = "live"
    /\ read' = Read("bool", elements # <<>>)
    /\ UNCHANGED <<order, cvars, pvars, gen>>

NextViews == NewCollectorStep \/ FilterStep \/ Iter \/ IterNext \/ LenOf \/ BoolOf

SpecViews == Init /\ [][NextViews]_vars

\* parameter_filter = ParameterFilter(parameter_id, **conditions)
BuildParameterFilter(conditions) ==
    /\ pfObj.err = "new"
    /\ pfArgs' = conditions
    /\ pfObj' = ParameterFilter(conditions, order)
    /\ UNCHANGED <<order, pc, scopeArgs, revit_object, filters, elements, last, narrowed,
                   hist, repeat, read, gen>>

NextPF == pfObj.err = "new" /\ \E conditions \in ConditionSets : BuildParameterFilter(conditions)

SpecPF == Init /\ [][NextPF]_vars

\* ================================================================ properties
\* The shape the documentation gives each filter's value.
ExpectedShape(k, v) ==
    CASE k \in {"is_type", "is_not_type", "is_view_independent"} -> v.t = "bool"
      [] k = "of_class" -> v.t \in {"type", "str"}
      [] k = "of_category" -> v.t \in {"bic", "str"}
      [] k = "symbol" -> v.t \in {"id", "symbol"}
      [] k \in {"level", "not_level"} -> v.t \in {"id", "level"}
      [] k = "parameter_filter" -> v.t = "pf"
      [] OTHER -> FALSE

\* A FilterSpec of supported names and right-shaped values
ValidKw(kw) == \A k \in DOMAIN kw : k \in DOMAIN MAP /\ ExpectedShape(k, kw[k])

Called == last.op \in {"construct", "filter"}

\* The stored filters the last call did not touch
StoredBefore == Restrict(filters, (DOMAIN filters) \ (DOMAIN last.kw))

\* The merged FilterSpec f applied to a fresh adapter built from the scope
Rebuilt(scope, f, ord) ==
    FilterCall(Object(ScopeSet(PickedScope(scope)), EmptyMap, <<>>), f, ord).obj.elements

\* ---------------------------------------------------------------- C1
\* C1: a constructor given more than one scope indicator and valid filters
\* raises nothing and binds the adapter to the highest-precedence indicator;
\* the other indicators never count as filter names.
C1_ScopePrecedenceSilent ==
    (last.op = "construct" /\ Cardinality(scopeArgs \cap ScopeNames) > 1 /\ ValidKw(last.kw))
        => /\ last.err = "none"
           /\ pc = "live"
           /\ revit_object \subseteq ScopeSet(PickedScope(scopeArgs))
           /\ (DOMAIN filters) \cap ScopeNames = {}

\* ---------------------------------------------------------------- C2
\* C2: after a successful construction and a successful .filter(...) the
\* ResultSet is the merged FilterSpec applied to a fresh adapter built from
\* the scope, never the previously narrowed adapter narrowed further.
C2_FilterRebuildsFromScope ==
    [][(last.op = "construct" /\ last.err = "none"
        /\ last'.op = "filter" /\ last'.err = "none")
          => elements' = Rebuilt(scopeArgs, filters', order)]_vars

\* ---------------------------------------------------------------- C3
\* C3: a filter name outside the supported vocabulary, given to the
\* constructor or to .filter(...), fails with RPW_Exception and nothing else.
C3_UnknownNameIsInvalidFilter ==
    (Called /\ \E k \in DOMAIN last.kw : k \notin DOMAIN MAP)
        => last.err = "RPW_Exception"

\* ---------------------------------------------------------------- C4
\* C4: a .filter(...) call given a malformed FilterSpec invokes no narrowing
\* operation and leaves the stored FilterSpec and the ResultSet as they were.
C4_NoPartialApplication ==
    [][(last'.op = "filter" /\ ~ValidKw(last'.kw))
          => /\ narrowed' = <<>>
             /\ filters' = filters
             /\ elements' = elements]_vars

\* ---------------------------------------------------------------- C5
\* C5: a supported filter name with a wrong-shaped value fails with
\* RPW_TypeError; the step is never silently applied or skipped.
C5_WrongShapeIsTypeMismatch ==
    (/\ Called
     /\ Cardinality(scopeArgs \cap ScopeNames) <= 1
     /\ DOMAIN last.kw \subseteq DOMAIN MAP
     /\ ValidKw(StoredBefore)
     /\ \E k \in DOMAIN last.kw : ~ExpectedShape(k, last.kw[k]))
        => last.err = "RPW_TypeError"

\* ---------------------------------------------------------------- C6
\* The constructor keywords with a = False replaced by b = True
Dual(kw, a, b) == Merge(Pop(kw, a), [k \in {b} |-> True])

DualCase(kw, a, b) == a \in DOMAIN kw /\ kw[a] = False /\ b \notin DOMAIN kw

\* C6: Collector(is_type=False, **F) ends as Collector(is_not_type=True, **F)
\* does, and Collector(is_not_type=False, **F) as Collector(is_type=True, **F):
\* the same error or the same ResultSet.
C6_Duality ==
    last.op = "construct" =>
        \A p \in {<<"is_type", "is_not_type">>, <<"is_not_type", "is_type">>} :
            DualCase(last.kw, p[1], p[2]) =>
                LET dual == NewCollector(scopeArgs, Dual(last.kw, p[1], p[2]), order)
                IN dual.err = last.err /\ dual.obj.elements = elements

C6_Witness ==
    /\ last.op = "construct" /\ last.err = "none"
    /\ DualCase(last.kw, "is_not_type", "is_type")
    /\ Cardinality(DOMAIN last.kw) = 2
    /\ elements # <<>>
    /\ Len(elements) < Cardinality(ScopeSet(PickedScope(scopeArgs)))

\* ---------------------------------------------------------------- C7
\* C7: .filter(**kw) called twice in a row with a valid kw leaves the stored
\* FilterSpec and the ResultSet as the first call left them.
C7_FilterIdempotent ==
    [][(last.op = "filter" /\ last'.op = "filter" /\ last'.kw = last.kw /\ ValidKw(last.kw))
          => (filters' = filters /\ elements' = elements)]_vars

C7_Witness ==
    /\ repeat /\ last.op = "filter" /\ last.err = "none"
    /\ DOMAIN last.kw # {} /\ ValidKw(last.kw)
    /\ "of_class" \in DOMAIN last.kw /\ last.kw["of_class"].t = "str"
    /\ elements # <<>>

\* ---------------------------------------------------------------- C8
ClassX == [of_class |-> Val("type", "X")]
TypesOnly == [is_type |-> True]

\* C8: for valid FilterSpecs A (non-empty) and B with disjoint keys,
\* Collector(**A).filter(**B) has the ResultSet of Collector(**A, **B); in the
\* store of 10 X elements (2 of them types) and 5 Y elements,
\* Collector(of_class=X) has size 10 and .filter(is_type=True) leaves 2.
C8_MergeEquivalence ==
    [][/\ (/\ hist = "constructed" /\ last.err = "none" /\ DOMAIN last.kw # {}
           /\ hist' = "filtered_once"
           /\ ValidKw(last.kw) /\ ValidKw(last'.kw)
           /\ (DOMAIN last.kw) \cap (DOMAIN last'.kw) = {})
             => LET one == NewCollector(scopeArgs, Merge(last.kw, last'.kw), order)
                IN /\ last'.err = "none"
                   /\ one.err = "none"
                   /\ elements' = one.obj.elements
       /\ (hist' = "constructed" /\ scopeArgs' = {} /\ last'.kw = ClassX)
             => Len(elements') = 10
       /\ (hist = "constructed" /\ scopeArgs = {} /\ last.kw = ClassX
           /\ hist' = "filtered_once" /\ last'.kw = TypesOnly)
             => Len(elements') = 2]_vars

C8_Witness ==
    /\ hist = "filtered_once" /\ scopeArgs = {} /\ last.err = "none"
    /\ last.kw = TypesOnly
    /\ filters = Merge(ClassX, TypesOnly)
    /\ Len(elements) = 2

\* ---------------------------------------------------------------- C9
\* A condition the rule factory has an overload for
ValidCondition(k, v) ==
    /\ k \in RuleNames
    /\ v.t \in {"str", "int", "float"}
    /\ (RULES[k] \in {"CreateContainsRule", "CreateBeginsWithRule", "CreateEndsWithRule"}
            => v.t = "str")

\* C9: ParameterFilter given options (case_sensitive, precision, reverse)
\* next to valid conditions is built, holds no rule for an option, and takes
\* the supplied reverse as its top-level reverse flag.
C9_OptionsAccepted ==
    (/\ pfObj.err # "new"
     /\ (DOMAIN pfArgs) \cap OptionNames # {}
     /\ (DOMAIN pfArgs) \cap RuleNames # {}
     /\ \A k \in (DOMAIN pfArgs) \ OptionNames : ValidCondition(k, pfArgs[k]))
        => /\ pfObj.err = "none"
           /\ Len(pfObj.rules) = Cardinality((DOMAIN pfArgs) \cap RuleNames)
           /\ pfObj.reverse = DictGet(pfArgs, "reverse", BoolV(FALSE))

\* ---------------------------------------------------------------- C10
BaseOf ==
    [not_equals |-> "equals", not_contains |-> "contains", not_begins |-> "begins",
     not_ends |-> "ends", not_greater |-> "greater",
     not_greater_equal |-> "greater_equal", not_less |-> "less",
     not_less_equal |-> "less_equal"]

\* C10: ParameterFilter(pid, not_c=V) builds the rule ParameterFilter(pid, c=V)
\* builds, same factory and arguments, wrapped in one inversion, while the
\* un-prefixed rule is not inverted; on every element the two predicates are
\* each other's inverse.
C10_Negation ==
    \A n \in DOMAIN pfArgs :
        (DOMAIN pfArgs = {n} /\ pfObj.err # "new") =>
            IF n \in DOMAIN BaseOf
            THEN LET pos == ParameterFilter([k \in {BaseOf[n]} |-> pfArgs[n]], order)
                 IN /\ pos.err = pfObj.err
                    /\ pfObj.err = "none" =>
                          /\ Len(pfObj.rules) = 1 /\ Len(pos.rules) = 1
                          /\ pfObj.rules[1].factory = pos.rules[1].factory
                          /\ pfObj.rules[1].args = pos.rules[1].args
                          /\ pfObj.rules[1].inverted /\ ~pos.rules[1].inverted
                          /\ \A e \in ElementIds :
                                ElementParameterFilterPasses(pfObj, e)
                                    = ~ElementParameterFilterPasses(pos, e)
            ELSE pfObj.err = "none" => ~pfObj.rules[1].inverted

C10_Witness ==
    /\ pfObj.err = "none"
    /\ DOMAIN pfArgs = {"not_contains"}
    /\ \E e \in ElementIds : ElementParameterFilterPasses(pfObj, e)
    /\ \E e \in ElementIds : ~ElementParameterFilterPasses(pfObj, e)

\* ---------------------------------------------------------------- C11
\* C11: ParameterFilter(pid) with no condition fails with RPW_Exception (the
\* configuration error) and builds no rule list; with one or more valid
\* conditions the filter holds exactly one atomic rule per condition, in the
\* iteration order of the condition dictionary.
C11_OneRulePerCondition ==
    pfObj.err # "new" =>
        /\ DOMAIN pfArgs = {} => (pfObj.err = "RPW_Exception" /\ pfObj.rules = <<>>)
        /\ (/\ DOMAIN pfArgs # {}
            /\ \A k \in DOMAIN pfArgs : ValidCondition(k, pfArgs[k]))
               => LET keys == IterKeys(DOMAIN pfArgs, order)
                  IN /\ pfObj.err = "none"
                     /\ Len(pfObj.rules) = Len(keys)
                     /\ \A i \in 1..Len(keys) :
                           /\ pfObj.rules[i].factory = RULES[keys[i]]
                           /\ pfObj.rules[i].args[1] = pfArgs[keys[i]]
                           /\ pfObj.rules[i].inverted = HasNotPrefix(keys[i])

C11_Witness ==
    /\ pfObj.err = "none"
    /\ order = "rev"
    /\ DOMAIN pfArgs = {"equals", "not_less"}
    /\ Len(pfObj.rules) = 2
    /\ pfObj.rules[1].factory = "CreateLessRule"

\* ---------------------------------------------------------------- C12
\* C12: iterating a Collector yields exactly the handles of .elements in
\* the same order, len is their count and truthiness their non-emptiness,
\* in every state of a constructed Collector (one constructed with a scope
\* and no filter included), and none of the three reads changes the scope,
\* the stored filters or the elements.
C12_ReadOnlyViews ==
    /\ [](pc = "live" =>
             /\ read.op = "iter" => read.value = elements
             /\ read.op = "len" => read.value = Len(elements)
             /\ read.op = "bool" => read.value = (elements # <<>>))
    /\ [][read'.op # "none" =>
             UNCHANGED <<scopeArgs, revit_object, filters, elements>>]_vars

\* ---------------------------------------------------------------- C13
\* Does the pair (k, v) make _chain call a narrowing method?
Narrows(k, v) == v.t # "bool" \/ v = True \/ k \in {"is_type", "is_not_type"}

\* C13: during one successful call the narrowing operations invoked on the
\* adapter are exactly the stored filters in iteration order, one call per
\* (name, value) pair, none before its turn and none more than once.
C13_StrictOrderOnce ==
    (/\ Called /\ last.err = "none"
     /\ ValidKw(filters)
     /\ \A k \in DOMAIN filters : Narrows(k, filters[k]))
        => [i \in 1..Len(narrowed) |-> narrowed[i].key] = IterKeys(DOMAIN filters, order)

\* ---------------------------------------------------------------- C14
\* The call last made, repeated with keyword k left out
Omitting(k, op, kw, scope, obj, ord) ==
    IF op = "construct" THEN NewCollector(scope, Pop(kw, k), ord)
    ELSE FilterCall(obj, Pop(kw, k), ord)

\* C14: a keyword other than is_type / is_not_type given the value False
\* makes no narrowing call and raises nothing: where the same call without
\* the keyword succeeds, the call succeeds too and leaves the same elements,
\* while the keyword is stored in the Collector's filters.
C14_FalseIsNoOp ==
    [][\A k \in DOMAIN last'.kw :
          (/\ last'.op \in {"construct", "filter"}
           /\ k \in (DOMAIN MAP) \ {"is_type", "is_not_type"}
           /\ last'.kw[k] = False
           /\ Omitting(k, last'.op, last'.kw, scopeArgs',
                       Object(revit_object, filters, elements), order).err = "none")
             => /\ last'.err = "none"
                /\ \A i \in 1..Len(narrowed') : narrowed'[i].key # k
                /\ k \in DOMAIN filters' /\ filters'[k] = False
                /\ elements' = Omitting(k, last'.op, last'.kw, scopeArgs',
                                        Object(revit_object, filters, elements),
                                        order).obj.elements]_vars
====
